---- MODULE Spec2Model ----
(***************************************************************************)
(* Progress and certification engine of the Onlearn backend.               *)
(*                                                                         *)
(* The relational tables (enrollments, module_progresses, certificates)    *)
(* are sequences: the index of a row is its auto-increment primary key.    *)
(* The document store holds the modules.  A MarkModuleComplete request is  *)
(* a sequence of store calls; each store call is one atomic step, so two   *)
(* requests interleave between their reads and writes as two HTTP workers  *)
(* do.  The other operations are one step each; the error they return is   *)
(* kept in reply.                                                          *)
(*                                                                         *)
(* Specifications: Spec is the course engine, one operation at a time;     *)
(* RaceSpec interleaves MarkModuleComplete requests; CertSpec is the       *)
(* approval workflow, which reads and writes only a certificate's status,  *)
(* approver and approval time; LabSpec is the lab grading workflow in      *)
(* either revision of the lab usecase; EngineSpec runs the course engine,  *)
(* the lab workflow and the approval workflow together; PendingSpec is the *)
(* approval workflow with the list of pending certificates; FaultSpec is   *)
(* MarkModuleComplete with store calls that fail; CourseSpec interleaves   *)
(* EnrollStudent and DeleteCourse requests at every store call.            *)
(***************************************************************************)
EXTENDS Integers, Sequences, FiniteSets, TLC

\* Bounds of the model.
MaxModules == 3
MaxCalls == 2
MaxCertificates == 3
MaxReviews == 2
MaxZeroRows == 1

Students == {"s1"}
Courses == {"c1"}
Labs == {"l1"}
Calls == 1..MaxCalls
ModuleIDs == 1..MaxModules

\* The users table: domain.Role of each user id; "ghost" is an id with no row.
RoleStudent == "student"
RoleInstructor == "instructor"
RoleAdmin == "admin"
UserIDs == {"s1", "i1", "a1", "ghost"}
UserRole == [u \in {"s1", "i1", "a1"} |->
               IF u = "s1" THEN RoleStudent
               ELSE IF u = "i1" THEN RoleInstructor ELSE RoleAdmin]

VARIABLES
  courses,         \* table courses: the ids of the rows
  modules,         \* document store: set of [id, course]
  nextModuleID,    \* number of ObjectIDs the document store has handed out
  moduleProgress,  \* table module_progresses: Seq of [user, module, course, complete]
  enrollments,     \* table enrollments: Seq of [user, course, progress, finished]
  certificates,    \* table certificates: Seq of [user, course, lab, title, status,
                   \*                             approvedBy, approvedAt]
  calls,           \* the MarkModuleComplete requests in flight, per worker
  labGrades,       \* table lab_grades: Seq of [user, lab, grade, feedback]
  now,             \* the wall clock that time.Now() reads
  reply,           \* the last one-step operation: the error it returned, the
                   \* number of certRepo.Create calls it made and, for a query,
                   \* the rows it returned
  revision         \* the revision of the lab usecase the build holds

vars == <<courses, modules, nextModuleID, moduleProgress, enrollments, certificates, calls,
          labGrades, now, reply, revision>>

\* What the course engine neither reads nor writes.
labVars == <<labGrades, now, reply, revision>>

stores == <<courses, modules, nextModuleID, moduleProgress, enrollments, certificates>>

(***************************************************************************)
(* float64 progress values.  A value is kept as the exact fraction         *)
(* num/den in lowest terms; den = 0 holds the two non-finite results of a  *)
(* float64 division by zero, +Inf (num = 1) and NaN (num = 0).  For the    *)
(* small counts used here float64 division and the rational agree on every *)
(* comparison with 100.                                                    *)
(***************************************************************************)
RECURSIVE GCD(_, _)
GCD(a, b) == IF b = 0 THEN a ELSE GCD(b, a % b)

Ratio(n, d) ==
  IF d = 0 THEN [num |-> IF n = 0 THEN 0 ELSE 1, den |-> 0]
  ELSE [num |-> n \div GCD(n, d), den |-> d \div GCD(n, d)]

Zero == Ratio(0, 1)

\* progress >= 100 on float64: false for NaN, true for +Inf.
AtLeast100(p) == IF p.den = 0 THEN p.num = 1 ELSE p.num >= 100 * p.den

\* 0 <= progress <= 100.
InRange(p) == p.den # 0 /\ p.num >= 0 /\ p.num <= 100 * p.den

\* Faulty variant: the quotient taken on the integers, before the conversion.
ProgressIntegerDivision(completedModules, totalModules) ==
  IF totalModules = 0 THEN Ratio(completedModules, 0)
  ELSE Ratio((completedModules \div totalModules) * 100, 1)

\* progress := (float64(completedModules) / float64(totalModules)) * 100
Progress(completedModules, totalModules) ==
  Ratio(100 * completedModules, totalModules)

(***************************************************************************)
(* Repository queries.                                                     *)
(***************************************************************************)
\* moduleRepo.GetByCourseID: the modules of a course.
GetByCourseID(courseID) == {m \in modules : m.course = courseID}

Min(S) == CHOOSE x \in S : \A y \in S : x <= y

Max(S) == CHOOSE x \in S : \A y \in S : x >= y

\* The primary keys of a result, the newest row first.
RECURSIVE Descending(_)
Descending(ids) ==
  IF ids = {} THEN <<>> ELSE <<Max(ids)>> \o Descending(ids \ {Max(ids)})

\* gorm First over the primary keys of the matching rows: the lowest, 0 when none.
First(ids) == IF ids = {} THEN 0 ELSE Min(ids)

\* moduleProgressRepo.GetByUserAndModule (0 is the nil result).
GetByUserAndModule(userID, moduleID) ==
  First({i \in 1..Len(moduleProgress) :
           /\ moduleProgress[i].user = userID
           /\ moduleProgress[i].module = moduleID})

\* enrollmentRepo.GetByUserAndCourse (0 is the nil result).
GetByUserAndCourse(userID, courseID) ==
  First({i \in 1..Len(enrollments) :
           /\ enrollments[i].user = userID
           /\ enrollments[i].course = courseID})

\* moduleProgressRepo.CountCompletedByUserAndCourse
CountCompletedByUserAndCourse(userID, courseID) ==
  Cardinality({i \in 1..Len(moduleProgress) :
                 /\ moduleProgress[i].user = userID
                 /\ moduleProgress[i].course = courseID
                 /\ moduleProgress[i].complete})

(***************************************************************************)
(* A worker's request: its program counter and the locals of               *)
(* MarkModuleComplete and updateEnrollmentProgress.                        *)
(*   existing    the row GetByUserAndModule returned (0 = nil)             *)
(*   enrollment  the struct GetByUserAndCourse returned (id 0 = nil)       *)
(*   certErr     what the certRepo.Create of the request returned          *)
(*   ret         "ok" (returned nil), "panic" (nil dereference)            *)
(*   line        the source line of the return statement taken             *)
(***************************************************************************)
NilEnrollment == [id |-> 0, progress |-> Zero, finished |-> FALSE]

IdleCall == [pc |-> "idle", user |-> "s1", module |-> 0, course |-> "c1",
             existing |-> 0, enrollment |-> NilEnrollment, totalModules |-> 0,
             certErr |-> "none", ret |-> "none", line |-> 0]

\* No one-step operation has been answered yet.
NoReply == [op |-> "none", err |-> "nil", creates |-> 0, result |-> <<>>]

\* The reply of an operation: its error ("nil" for a nil error).
Reply(op, err, creates) ==
  [op |-> op, err |-> err, creates |-> creates, result |-> <<>>]

\* The reply of a query: the rows it returned, none with an error.
Result(op, err, result) ==
  [op |-> op, err |-> err, creates |-> 0,
   result |-> IF err = "nil" THEN result ELSE <<>>]

NoneInFlight == \A k \in Calls : calls[k].pc = "idle"

\* The workers are interchangeable: a request goes to the first free one.
FreeWorker(k) ==
  /\ calls[k].pc = "idle"
  /\ \A j \in 1..(k - 1) : calls[j].pc # "idle"

Init ==
  /\ modules = {}
  /\ nextModuleID = 0
  /\ moduleProgress = <<>>
  /\ enrollments = <<>>
  /\ certificates = <<>>
  /\ calls = [k \in Calls |-> IdleCall]
  /\ labGrades = <<>>
  /\ now = 1
  /\ reply = NoReply
  /\ revision = "letter"
  /\ courses = Courses

(***************************************************************************)
(* Module CRUD and enrollment.                                             *)
(***************************************************************************)
\* courseUsecase.AddModule: the course exists; the store assigns a fresh ObjectID.
AddModule(courseID) ==
  /\ nextModuleID < MaxModules
  /\ nextModuleID' = nextModuleID + 1
  /\ modules' = modules \cup {[id |-> nextModuleID + 1, course |-> courseID]}
  /\ UNCHANGED <<courses, moduleProgress, enrollments, certificates, calls, labVars>>

\* courseUsecase.DeleteModule: deletes the document; completions are kept.
DeleteModule(moduleID) ==
  /\ \E m \in modules : m.id = moduleID
  /\ modules' = {m \in modules : m.id # moduleID}
  /\ UNCHANGED <<courses, nextModuleID, moduleProgress, enrollments, certificates,
                 calls, labVars>>

\* courseUsecase.EnrollStudent: refused when an enrollment exists.
EnrollStudent(userID, courseID) ==
  /\ GetByUserAndCourse(userID, courseID) = 0
  /\ enrollments' = Append(enrollments,
        [user |-> userID, course |-> courseID, progress |-> Zero, finished |-> FALSE])
  /\ UNCHANGED <<courses, modules, nextModuleID, moduleProgress, certificates,
                 calls, labVars>>

(***************************************************************************)
(* Certificates.                                                           *)
(***************************************************************************)
\* domain.Certificate as the triggers and GenerateCertificate build it: pending,
\* ApprovedBy and ApprovedAt nil ("none" and 0).
NewCertificate(userID, courseID, labID, title) ==
  [user |-> userID, course |-> courseID, lab |-> labID, title |-> title,
   status |-> "pending", approvedBy |-> "none", approvedAt |-> 0]

\* Faulty variant: an insert that overwrites the stored certificate of the same
\* user, course and lab.
CreateOrReplace(cert, stored) ==
  LET same == {i \in 1..Len(certificates) :
                 /\ certificates[i].user = cert.user
                 /\ certificates[i].course = cert.course
                 /\ certificates[i].lab = cert.lab}
  IN  IF ~stored THEN certificates
      ELSE IF same = {} THEN Append(certificates, cert)
      ELSE [certificates EXCEPT ![CHOOSE i \in same : TRUE] = cert]

\* certRepo.Create: the insert, or the table as it was when the insert fails.
Create(cert, stored) ==
  IF stored THEN Append(certificates, cert) ELSE certificates

(***************************************************************************)
(* MarkModuleComplete, one store call per step.                            *)
(***************************************************************************)
\* Faulty variant: the early return is missing.
AlreadyCompleteNever(existing) == FALSE

\* existing != nil && existing.IsComplete
AlreadyComplete(existing) == existing # 0 /\ moduleProgress[existing].complete

\* Entry and progressRepo.GetByUserAndModule; returns nil when already complete.
MarkModuleComplete(k, userID, moduleID, courseID) ==
  /\ FreeWorker(k)
  /\ LET existing == GetByUserAndModule(userID, moduleID)
         c == [IdleCall EXCEPT !.user = userID, !.module = moduleID,
                               !.course = courseID, !.existing = existing]
     IN  calls' = [calls EXCEPT ![k] =
            IF AlreadyComplete(existing)
            THEN [c EXCEPT !.pc = "done", !.ret = "ok", !.line = 303]
            ELSE [c EXCEPT !.pc = "write"]]
  /\ UNCHANGED <<stores, labVars>>

\* progressRepo.Update(existing) with IsComplete = true, or progressRepo.Create.
WriteProgress(k) ==
  /\ calls[k].pc = "write"
  /\ moduleProgress' =
        IF calls[k].existing # 0
        THEN [moduleProgress EXCEPT ![calls[k].existing].complete = TRUE]
        ELSE Append(moduleProgress,
               [user |-> calls[k].user, module |-> calls[k].module,
                course |-> calls[k].course, complete |-> TRUE])
  /\ calls' = [calls EXCEPT ![k].pc = "getEnrollment"]
  /\ UNCHANGED <<courses, modules, nextModuleID, enrollments, certificates, labVars>>

\* updateEnrollmentProgress: enrollmentRepo.GetByUserAndCourse.
GetEnrollment(k) ==
  /\ calls[k].pc = "getEnrollment"
  /\ LET id == GetByUserAndCourse(calls[k].user, calls[k].course)
     IN  calls' = [calls EXCEPT
            ![k].pc = "getModules",
            ![k].enrollment =
               IF id = 0 THEN NilEnrollment
               ELSE [id |-> id, progress |-> enrollments[id].progress,
                     finished |-> enrollments[id].finished]]
  /\ UNCHANGED <<stores, labVars>>

\* Faulty variant: the zero-module guard is missing.
NoModulesNever(totalModules) == FALSE

\* totalModules == 0
NoModules(totalModules) == totalModules = 0

\* updateEnrollmentProgress: moduleRepo.GetByCourseID and the zero-module return.
GetModules(k) ==
  /\ calls[k].pc = "getModules"
  /\ LET totalModules == Cardinality(GetByCourseID(calls[k].course))
     IN  calls' = [calls EXCEPT ![k] =
            IF NoModules(totalModules)
            THEN [@ EXCEPT !.pc = "done", !.ret = "ok", !.line = 337,
                           !.totalModules = totalModules]
            ELSE [@ EXCEPT !.pc = "count", !.totalModules = totalModules]]
  /\ UNCHANGED <<stores, labVars>>

\* Faulty variant: finished only when progress > 100.
SetProgressStrictlyAbove(enrollment, progress) ==
  [enrollment EXCEPT !.progress = progress,
                     !.finished = IF progress.den # 0 /\ progress.num > 100 * progress.den
                                  THEN TRUE ELSE @]

\* enrollment.Progress = progress; if progress >= 100 { enrollment.IsFinished = true }
SetProgress(enrollment, progress) ==
  [enrollment EXCEPT !.progress = progress,
                     !.finished = IF AtLeast100(progress) THEN TRUE ELSE @]

\* updateEnrollmentProgress: CountCompletedByUserAndCourse, the progress value and
\* the assignment through the enrollment pointer, which panics when it is nil.
CountCompleted(k) ==
  /\ calls[k].pc = "count"
  /\ LET completedModules ==
           CountCompletedByUserAndCourse(calls[k].user, calls[k].course)
         progress == Progress(completedModules, calls[k].totalModules)
     IN  calls' = [calls EXCEPT ![k] =
            IF calls[k].enrollment.id = 0
            THEN [@ EXCEPT !.pc = "done", !.ret = "panic", !.line = 343]
            ELSE [@ EXCEPT !.enrollment = SetProgress(@, progress),
                           !.pc = IF AtLeast100(progress)
                                  THEN "createCert" ELSE "save"]]
  /\ UNCHANGED <<stores, labVars>>

\* updateEnrollmentProgress: certRepo.Create of the auto-generated certificate; the
\* error it returns is discarded.
CreateCertificate(k) ==
  /\ calls[k].pc = "createCert"
  /\ \E stored \in BOOLEAN :
        /\ certificates' = Create(NewCertificate(calls[k].user, calls[k].course, "none",
                                                 "Course Completion Certificate"), stored)
        /\ calls' = [calls EXCEPT ![k].pc = "save",
                                  ![k].certErr = IF stored THEN "nil" ELSE "store error"]
  /\ UNCHANGED <<courses, modules, nextModuleID, moduleProgress, enrollments, labVars>>

\* Faulty variant: the error of certRepo.Create is returned instead of discarded.
SaveEnrollmentUnlessCreateFailed(k) ==
  /\ calls[k].pc = "save"
  /\ IF calls[k].certErr = "store error"
     THEN /\ calls' = [calls EXCEPT ![k].pc = "done", ![k].ret = "error", ![k].line = 350]
          /\ UNCHANGED enrollments
     ELSE /\ enrollments' = [enrollments EXCEPT
                ![calls[k].enrollment.id].progress = calls[k].enrollment.progress,
                ![calls[k].enrollment.id].finished = calls[k].enrollment.finished]
          /\ calls' = [calls EXCEPT ![k].pc = "done", ![k].ret = "ok", ![k].line = 359]
  /\ UNCHANGED <<courses, modules, nextModuleID, moduleProgress, certificates, labVars>>

\* updateEnrollmentProgress: enrollmentRepo.Update saves every field of the struct.
SaveEnrollment(k) ==
  /\ calls[k].pc = "save"
  /\ enrollments' = [enrollments EXCEPT
        ![calls[k].enrollment.id].progress = calls[k].enrollment.progress,
        ![calls[k].enrollment.id].finished = calls[k].enrollment.finished]
  /\ calls' = [calls EXCEPT ![k].pc = "done", ![k].ret = "ok", ![k].line = 359]
  /\ UNCHANGED <<courses, modules, nextModuleID, moduleProgress, certificates, labVars>>

\* The response is written and the worker is free again.
Respond(k) ==
  /\ calls[k].pc = "done"
  /\ calls' = [calls EXCEPT ![k] = IdleCall]
  /\ UNCHANGED <<stores, labVars>>

(***************************************************************************)
(* The store calls of MarkModuleComplete when they fail with an error      *)
(* other than record-not-found.                                            *)
(***************************************************************************)
\* The struct GetByUserAndModule returns next to its error: every field zero.
ZeroProgress == [user |-> "none", module |-> 0, course |-> "none", complete |-> FALSE]

ZeroRows == {i \in 1..Len(moduleProgress) : moduleProgress[i].user = "none"}

\* Entry when progressRepo.GetByUserAndModule fails: the error is discarded and
\* existing is the zero struct (here -1), which is not nil and not complete.
MarkModuleCompleteLookupFails(k, userID, moduleID, courseID) ==
  /\ FreeWorker(k)
  /\ Cardinality(ZeroRows) < MaxZeroRows
  /\ calls' = [calls EXCEPT ![k] =
        [IdleCall EXCEPT !.user = userID, !.module = moduleID, !.course = courseID,
                         !.existing = -1, !.pc = "writeZero"]]
  /\ UNCHANGED <<stores, labVars>>

\* progressRepo.Update of the zero struct with IsComplete = true: Save inserts a
\* struct that has no primary key.
WriteZeroProgress(k) ==
  /\ calls[k].pc = "writeZero"
  /\ moduleProgress' = Append(moduleProgress, [ZeroProgress EXCEPT !.complete = TRUE])
  /\ calls' = [calls EXCEPT ![k].pc = "getEnrollment"]
  /\ UNCHANGED <<courses, modules, nextModuleID, enrollments, certificates, labVars>>

\* progressRepo.Update or progressRepo.Create fails: the error is returned.
WriteProgressFails(k) ==
  /\ calls[k].pc \in {"write", "writeZero"}
  /\ calls' = [calls EXCEPT ![k].pc = "done", ![k].ret = "error",
                            ![k].line = IF calls[k].existing = 0 THEN 318 ELSE 307]
  /\ UNCHANGED <<stores, labVars>>

\* enrollmentRepo.GetByUserAndCourse fails: the error is returned.
GetEnrollmentFails(k) ==
  /\ calls[k].pc = "getEnrollment"
  /\ calls' = [calls EXCEPT ![k].pc = "done", ![k].ret = "error", ![k].line = 329]
  /\ UNCHANGED <<stores, labVars>>

\* Faulty variant: the error of the module lookup is returned.
GetModulesFailsWithError(k) ==
  /\ calls[k].pc = "getModules"
  /\ calls' = [calls EXCEPT ![k].pc = "done", ![k].ret = "error", ![k].line = 333]
  /\ UNCHANGED <<stores, labVars>>

\* moduleRepo.GetByCourseID fails: the error is discarded and modules is nil, so
\* totalModules is 0.
GetModulesFails(k) ==
  /\ calls[k].pc = "getModules"
  /\ LET totalModules == 0
     IN  calls' = [calls EXCEPT ![k] =
            IF NoModules(totalModules)
            THEN [@ EXCEPT !.pc = "done", !.ret = "ok", !.line = 337,
                           !.totalModules = totalModules]
            ELSE [@ EXCEPT !.pc = "count", !.totalModules = totalModules]]
  /\ UNCHANGED <<stores, labVars>>

\* CountCompletedByUserAndCourse fails: the error is discarded and the count is 0.
CountCompletedFails(k) ==
  /\ calls[k].pc = "count"
  /\ LET completedModules == 0
         progress == Progress(completedModules, calls[k].totalModules)
     IN  calls' = [calls EXCEPT ![k] =
            IF calls[k].enrollment.id = 0
            THEN [@ EXCEPT !.pc = "done", !.ret = "panic", !.line = 343]
            ELSE [@ EXCEPT !.enrollment = SetProgress(@, progress),
                           !.pc = IF AtLeast100(progress)
                                  THEN "createCert" ELSE "save"]]
  /\ UNCHANGED <<stores, labVars>>

\* enrollmentRepo.Update fails: the error is returned and nothing is saved.
SaveEnrollmentFails(k) ==
  /\ calls[k].pc = "save"
  /\ calls' = [calls EXCEPT ![k].pc = "done", ![k].ret = "error", ![k].line = 359]
  /\ UNCHANGED <<stores, labVars>>

(***************************************************************************)
(* EnrollStudent and DeleteCourse, one store call per step.  A worker runs *)
(* one request; line is the source line of the return statement taken and  *)
(* ret the error returned ("ok" for nil).  The relations of                 *)
(* domain.Enrollment are migrated as foreign keys, so the store refuses an  *)
(* enrollment of a course that has no row and the deletion of a course that *)
(* an enrollment or a certificate refers to.                                *)
(***************************************************************************)
\* The enrollments of (student, course).
EnrollmentRows(userID, courseID) ==
  {i \in 1..Len(enrollments) :
     enrollments[i].user = userID /\ enrollments[i].course = courseID}

\* existing != nil
EnrollmentExists(existing) == existing # 0

\* EnrollStudent: entry and enrollmentRepo.GetByUserAndCourse, whose error is
\* discarded; on a failure it returns a struct (here -1), not nil.
EnrollLookup(k, userID, courseID, faults) ==
  /\ FreeWorker(k)
  /\ LET existing == IF "GetByUserAndCourse" \in faults THEN -1
                     ELSE GetByUserAndCourse(userID, courseID)
         c == [IdleCall EXCEPT !.user = userID, !.course = courseID,
                               !.existing = existing]
     IN  calls' = [calls EXCEPT ![k] =
            IF EnrollmentExists(existing)
            THEN [c EXCEPT !.pc = "done", !.ret = "already enrolled in this course",
                           !.line = 243]
            ELSE [c EXCEPT !.pc = "verifyCourse"]]
  /\ UNCHANGED <<stores, labVars>>

\* EnrollStudent: courseRepo.GetByID; any error is answered "course not found".
VerifyCourse(k, faults) ==
  /\ calls[k].pc = "verifyCourse"
  /\ calls' = [calls EXCEPT ![k] =
        IF calls[k].course \in courses /\ "GetByID" \notin faults
        THEN [@ EXCEPT !.pc = "createEnrollment"]
        ELSE [@ EXCEPT !.pc = "done", !.ret = "course not found", !.line = 249]]
  /\ UNCHANGED <<stores, labVars>>

\* EnrollStudent: enrollmentRepo.Create with Progress 0; its error is returned.
CreateEnrollment(k, faults) ==
  /\ calls[k].pc = "createEnrollment"
  /\ LET stored == calls[k].course \in courses /\ "Create" \notin faults
     IN  /\ enrollments' =
               IF stored
               THEN Append(enrollments, [user |-> calls[k].user, course |-> calls[k].course,
                                         progress |-> Zero, finished |-> FALSE])
               ELSE enrollments
         /\ calls' = [calls EXCEPT ![k].pc = "done", ![k].line = 258,
                                   ![k].ret = IF stored THEN "ok" ELSE "store error"]
  /\ UNCHANGED <<courses, modules, nextModuleID, moduleProgress, certificates, labVars>>

\* enrollmentRepo.GetByCourseID: the enrollments of a course.
EnrollmentsOfCourse(courseID) ==
  {i \in 1..Len(enrollments) : enrollments[i].course = courseID}

\* len(enrollments) > 0
HasEnrollments(found) == Cardinality(found) > 0

\* DeleteCourse: entry and enrollmentRepo.GetByCourseID, whose error is discarded;
\* on a failure the slice is empty.
DeleteCourseLookup(k, id, faults) ==
  /\ FreeWorker(k)
  /\ LET found == IF "GetByCourseID" \in faults THEN {} ELSE EnrollmentsOfCourse(id)
         c == [IdleCall EXCEPT !.user = "none", !.course = id]
     IN  calls' = [calls EXCEPT ![k] =
            IF HasEnrollments(found)
            THEN [c EXCEPT !.pc = "done", !.line = 162,
                           !.ret = "cannot delete course with existing enrollments"]
            ELSE [c EXCEPT !.pc = "deleteModules"]]
  /\ UNCHANGED <<stores, labVars>>

\* DeleteCourse: moduleRepo.GetByCourseID and moduleRepo.Delete of each module;
\* every error is discarded, and when the lookup fails no module is deleted.
DeleteModules(k, faults) ==
  /\ calls[k].pc = "deleteModules"
  /\ modules' = IF "GetByCourseID" \in faults THEN modules
                ELSE modules \ GetByCourseID(calls[k].course)
  /\ calls' = [calls EXCEPT ![k].pc = "deleteCourse"]
  /\ UNCHANGED <<courses, nextModuleID, moduleProgress, enrollments, certificates,
                 labVars>>

\* The rows with a foreign key to the course.
Referenced(courseID) ==
  \/ EnrollmentsOfCourse(courseID) # {}
  \/ \E i \in 1..Len(certificates) : certificates[i].course = courseID

\* DeleteCourse: courseRepo.Delete; its error is returned.
DeleteCourseRow(k, faults) ==
  /\ calls[k].pc = "deleteCourse"
  /\ LET deleted == ~Referenced(calls[k].course) /\ "Delete" \notin faults
     IN  /\ courses' = IF deleted THEN courses \ {calls[k].course} ELSE courses
         /\ calls' = [calls EXCEPT ![k].pc = "done", ![k].line = 171,
                                   ![k].ret = IF deleted THEN "ok" ELSE "store error"]
  /\ UNCHANGED <<modules, nextModuleID, moduleProgress, enrollments, certificates,
                 labVars>>

(***************************************************************************)
(* Certificate approval workflow.                                          *)
(***************************************************************************)
\* certificateUsecase.GenerateCertificate: the user exists and so do the course and
\* the lab, each when one is given; the certificate is stored pending.
GenerateCertificate(userID, courseID, labID, title) ==
  /\ Len(certificates) < MaxCertificates
  /\ LET err == IF userID \notin DOMAIN UserRole THEN "user not found"
                ELSE IF courseID # "none" /\ courseID \notin courses
                     THEN "course not found"
                ELSE IF labID # "none" /\ labID \notin Labs THEN "lab not found"
                ELSE "nil"
     IN  IF err # "nil"
         THEN /\ reply' = Reply("GenerateCertificate", err, 0)
              /\ UNCHANGED certificates
         ELSE \E stored \in BOOLEAN :
                /\ certificates' = Create(NewCertificate(userID, courseID, labID, title),
                                          stored)
                /\ reply' = Reply("GenerateCertificate",
                                  IF stored THEN "nil" ELSE "store error", 1)
  /\ UNCHANGED <<courses, modules, nextModuleID, moduleProgress, enrollments, calls,
                 labGrades, now, revision>>

\* Faulty variant: every user that exists may review.
MayReviewAnyUser(approverID) == approverID \in DOMAIN UserRole

\* approver exists and approver.Role is instructor or admin
MayReview(approverID) ==
  /\ approverID \in DOMAIN UserRole
  /\ UserRole[approverID] \in {RoleInstructor, RoleAdmin}

\* Faulty variant: a certificate that carries a stamp keeps it.
ReviewedKeepFirstStamp(cert, status, approverID) ==
  IF cert.approvedBy # "none" THEN [cert EXCEPT !.status = status]
  ELSE [cert EXCEPT !.status = status, !.approvedBy = approverID, !.approvedAt = now]

\* Faulty variant: the approver and the time are not recorded.
ReviewedStatusOnly(cert, status, approverID) == [cert EXCEPT !.status = status]

\* cert.Status = status; cert.ApprovedBy = &approverID; cert.ApprovedAt = &now
Reviewed(cert, status, approverID) ==
  [cert EXCEPT !.status = status, !.approvedBy = approverID, !.approvedAt = now]

\* certificateUsecase.ApproveCertificate
ApproveCertificate(certID, approverID) ==
  LET err == IF certID \notin 1..Len(certificates) THEN "certificate not found"
             ELSE IF approverID \notin DOMAIN UserRole THEN "approver not found"
             ELSE IF ~MayReview(approverID)
                  THEN "only instructors and admins can approve certificates"
             ELSE "nil"
  IN  /\ reply' = Reply("ApproveCertificate", err, 0)
      /\ IF err = "nil"
         THEN /\ now <= MaxReviews
              /\ certificates' = [certificates EXCEPT
                    ![certID] = Reviewed(@, "approved", approverID)]
              /\ now' = now + 1
         ELSE UNCHANGED <<certificates, now>>
      /\ UNCHANGED <<courses, modules, nextModuleID, moduleProgress, enrollments, calls,
                     labGrades, revision>>

\* certificateUsecase.RejectCertificate
RejectCertificate(certID, approverID) ==
  LET err == IF certID \notin 1..Len(certificates) THEN "certificate not found"
             ELSE IF approverID \notin DOMAIN UserRole THEN "approver not found"
             ELSE IF ~MayReview(approverID)
                  THEN "only instructors and admins can reject certificates"
             ELSE "nil"
  IN  /\ reply' = Reply("RejectCertificate", err, 0)
      /\ IF err = "nil"
         THEN /\ now <= MaxReviews
              /\ certificates' = [certificates EXCEPT
                    ![certID] = Reviewed(@, "rejected", approverID)]
              /\ now' = now + 1
         ELSE UNCHANGED <<certificates, now>>
      /\ UNCHANGED <<courses, modules, nextModuleID, moduleProgress, enrollments, calls,
                     labGrades, revision>>

\* Faulty variant: the query leaves out the approved certificates only.
GetPendingOrRejected ==
  Descending({i \in 1..Len(certificates) : certificates[i].status # "approved"})

\* certRepo.GetPending: status = 'pending', ordered by issue_date DESC.
GetPending ==
  Descending({i \in 1..Len(certificates) : certificates[i].status = "pending"})

\* certificateUsecase.GetPendingCertificates
GetPendingCertificates(faults) ==
  /\ reply' = Result("GetPendingCertificates",
                     IF "GetPending" \in faults THEN "store error" ELSE "nil",
                     GetPending)
  /\ UNCHANGED <<stores, calls, labGrades, now, revision>>

(***************************************************************************)
(* Lab grading workflow.  The repository holds two revisions of the lab    *)
(* usecase: "letter" keeps LabGrade.Grade as a string ("" = not graded),   *)
(* "numeric" keeps it as a *float64 (nil = not graded, here <<>>, and      *)
(* <<g>> for a pointer to g).  A store call named in faults returns an     *)
(* error other than record-not-found.                                      *)
(***************************************************************************)
StoreCalls == {"GetGrade", "UpdateGrade", "CreateGrade", "Create"}

\* The failures of one request: none, one store call, or Save and the insert after it.
FaultSets ==
  {{}} \cup {{c} : c \in StoreCalls} \cup {{"UpdateGrade", "CreateGrade"}}

\* The labs of the table and an id without a row.
LabIDs == Labs \cup {"l0"}

\* The grades a caller can pass: any string, or any *float64.
LetterGrades == {"", "A", "B", "C", "80"}
NumericGrades == {<<>>, <<60>>, <<75>>, <<80>>}
Grades == IF revision = "letter" THEN LetterGrades ELSE NumericGrades

\* Grade: "" and Grade: nil, the grade of a new entry.
NotGraded == IF revision = "letter" THEN "" ELSE <<>>

\* labRepo.GetGrade (0 is the nil result).
GetGrade(userID, labID) ==
  First({i \in 1..Len(labGrades) :
           /\ labGrades[i].user = userID
           /\ labGrades[i].lab = labID})

\* labRepo.DeleteGrade: the rows of the student and lab are removed.
DeleteGrade(userID, labID) ==
  LET Kept(row) == ~(row.user = userID /\ row.lab = labID)
  IN  SelectSeq(labGrades, Kept)

\* Faulty variant: an entry that is graded does not count as an enrollment.
AlreadyEnrolledUngraded(existing) ==
  existing # 0 /\ labGrades[existing].grade = NotGraded

\* existing != nil
AlreadyEnrolled(existing) == existing # 0

\* labUsecase.StudentEnroll
StudentEnroll(userID, labID, faults) ==
  LET existing == GetGrade(userID, labID)
      err == IF "GetGrade" \in faults THEN "store error"
             ELSE IF AlreadyEnrolled(existing) THEN "already enrolled in this lab"
             ELSE IF labID \notin Labs THEN "lab not found"
             ELSE IF "CreateGrade" \in faults THEN "store error"
             ELSE "nil"
  IN  /\ reply' = Reply("StudentEnroll", err, 0)
      /\ labGrades' =
            IF err = "nil"
            THEN Append(labGrades, [user |-> userID, lab |-> labID,
                                    grade |-> NotGraded, feedback |-> ""])
            ELSE labGrades
      /\ UNCHANGED <<stores, calls, now, revision>>

\* labUsecase.AddStudentToLab (numeric revision)
AddStudentToLab(userID, labID, faults) ==
  LET existing == GetGrade(userID, labID)
      err == IF userID \notin DOMAIN UserRole THEN "student not found"
             ELSE IF UserRole[userID] # RoleStudent THEN "user is not a student"
             ELSE IF "GetGrade" \in faults THEN "store error"
             ELSE IF existing # 0 THEN "student already enrolled in this lab"
             ELSE IF labID \notin Labs THEN "lab not found"
             ELSE IF "CreateGrade" \in faults THEN "store error"
             ELSE "nil"
  IN  /\ revision = "numeric"
      /\ reply' = Reply("AddStudentToLab", err, 0)
      /\ labGrades' =
            IF err = "nil"
            THEN Append(labGrades, [user |-> userID, lab |-> labID,
                                    grade |-> NotGraded, feedback |-> ""])
            ELSE labGrades
      /\ UNCHANGED <<stores, calls, now, revision>>

\* labUsecase.RemoveStudentFromLab (numeric revision)
RemoveStudentFromLab(userID, labID, faults) ==
  LET existing == GetGrade(userID, labID)
      err == IF labID \notin Labs THEN "lab not found"
             ELSE IF "GetGrade" \in faults THEN "store error"
             ELSE IF existing = 0 THEN "student is not enrolled in this lab"
             ELSE "nil"
  IN  /\ revision = "numeric"
      /\ reply' = Reply("RemoveStudentFromLab", err, 0)
      /\ labGrades' = IF err = "nil" THEN DeleteGrade(userID, labID) ELSE labGrades
      /\ UNCHANGED <<stores, calls, now, revision>>

\* Faulty variant: every user that exists may grade.
MayGradeAnyUser(instructorID) == instructorID \in DOMAIN UserRole

\* instructor exists and instructor.Role is instructor or admin
MayGrade(instructorID) ==
  /\ instructorID \in DOMAIN UserRole
  /\ UserRole[instructorID] \in {RoleInstructor, RoleAdmin}

\* grade == "A" || grade == "B"
PassesLetter(grade) == grade = "A" \/ grade = "B"

\* Faulty variant: the threshold itself does not pass.
PassesNumericAbove(grade) == grade # <<>> /\ grade[1] > 75

\* grade != nil && *grade >= 75
PassesNumeric(grade) == grade # <<>> /\ grade[1] >= 75

\* The certificate of the lab trigger; its Create error is discarded.
LabCertificate(userID, labID) ==
  NewCertificate(userID, "none", labID, "Lab Completion Certificate")

\* labUsecase.SubmitGrade, letter revision: the entry must exist.
SubmitGradeLetter(instructorID, userID, labID, grade, feedback, faults) ==
  LET labGrade == GetGrade(userID, labID)
      err == IF instructorID \notin DOMAIN UserRole THEN "instructor not found"
             ELSE IF ~MayGrade(instructorID)
                  THEN "only instructors and admins can grade labs"
             ELSE IF "GetGrade" \in faults THEN "store error"
             ELSE IF labGrade = 0 THEN "student not enrolled in this lab"
             ELSE IF "UpdateGrade" \in faults THEN "store error"
             ELSE "nil"
      creates == IF err = "nil" /\ PassesLetter(grade) THEN 1 ELSE 0
  IN  /\ creates = 1 => Len(certificates) < MaxCertificates
      /\ reply' = Reply("SubmitGrade", err, creates)
      /\ labGrades' =
            IF err = "nil"
            THEN [labGrades EXCEPT ![labGrade].grade = grade,
                                   ![labGrade].feedback = feedback]
            ELSE labGrades
      /\ certificates' =
            IF creates = 1
            THEN Create(LabCertificate(userID, labID), "Create" \notin faults)
            ELSE certificates
      /\ UNCHANGED <<courses, modules, nextModuleID, moduleProgress, enrollments, calls,
                     now, revision>>

\* labUsecase.SubmitGrade, numeric revision: a missing entry is created.  Save
\* inserts a struct without a primary key; when Save fails CreateGrade is tried,
\* which inserts a new entry and cannot insert one whose primary key is stored.
SubmitGradeNumeric(instructorID, userID, labID, grade, feedback, faults) ==
  LET labGrade == GetGrade(userID, labID)
      graded == [user |-> userID, lab |-> labID, grade |-> grade,
                 feedback |-> feedback]
      err == IF instructorID \notin DOMAIN UserRole THEN "instructor not found"
             ELSE IF ~MayGrade(instructorID)
                  THEN "only instructors and admins can grade labs"
             ELSE IF "GetGrade" \in faults THEN "store error"
             ELSE IF "UpdateGrade" \notin faults THEN "nil"
             ELSE IF labGrade # 0 \/ "CreateGrade" \in faults THEN "store error"
             ELSE "nil"
      creates == IF err = "nil" /\ PassesNumeric(grade) THEN 1 ELSE 0
  IN  /\ creates = 1 => Len(certificates) < MaxCertificates
      /\ reply' = Reply("SubmitGrade", err, creates)
      /\ labGrades' =
            IF err # "nil" THEN labGrades
            ELSE IF labGrade # 0 THEN [labGrades EXCEPT ![labGrade] = graded]
            ELSE Append(labGrades, graded)
      /\ certificates' =
            IF creates = 1
            THEN Create(LabCertificate(userID, labID), "Create" \notin faults)
            ELSE certificates
      /\ UNCHANGED <<courses, modules, nextModuleID, moduleProgress, enrollments, calls,
                     now, revision>>

\* labUsecase.SubmitGrade of the revision the build holds.
SubmitGrade(instructorID, userID, labID, grade, feedback, faults) ==
  IF revision = "letter"
  THEN SubmitGradeLetter(instructorID, userID, labID, grade, feedback, faults)
  ELSE SubmitGradeNumeric(instructorID, userID, labID, grade, feedback, faults)

(***************************************************************************)
(* Read-side queries of the lab workflow.  A result is the sequence of the *)
(* rows returned.                                                          *)
(***************************************************************************)
\* The users table in primary-key order.
UserRows == <<"s1", "i1", "a1">>

\* userRepo.GetByIDs: the users whose id is one of ids; no query for no id.
GetByIDs(ids) ==
  LET Wanted(u) == u \in ids
  IN  IF ids = {} THEN <<>> ELSE SelectSeq(UserRows, Wanted)

\* labRepo.GetGradesByLabID: the entries of a lab.
GetGradesByLabID(labID) ==
  LET OfLab(row) == row.lab = labID
  IN  SelectSeq(labGrades, OfLab)

\* Faulty variant: every entry of the lab counts as ungraded.
UngradedUserIDsAnyGrade(labID) ==
  {GetGradesByLabID(labID)[j].user : j \in 1..Len(GetGradesByLabID(labID))}

\* The loop of GetUngradedStudents: the users of the entries with g.Grade == ""
\* (letter) or g.Grade == nil (numeric).
UngradedUserIDs(labID) ==
  LET grades == GetGradesByLabID(labID)
  IN  {grades[j].user : j \in {n \in 1..Len(grades) : grades[n].grade = NotGraded}}

\* labUsecase.GetUngradedStudents
GetUngradedStudents(labID, faults) ==
  LET ungradedUserIDs == UngradedUserIDs(labID)
      err == IF "GetGradesByLabID" \in faults THEN "store error"
             ELSE IF ungradedUserIDs # {} /\ "GetByIDs" \in faults THEN "store error"
             ELSE "nil"
  IN  /\ reply' = Result("GetUngradedStudents", err, GetByIDs(ungradedUserIDs))
      /\ UNCHANGED <<stores, calls, labGrades, now, revision>>

\* labRepo.CountUngradedByLabID of the letter revision: lab_id = ? AND grade = "".
CountUngradedLetter(labID) ==
  Cardinality({i \in 1..Len(labGrades) :
                 labGrades[i].lab = labID /\ labGrades[i].grade = ""})

\* labRepo.CountUngradedByLabID of the numeric revision: the entries of the lab
\* whose grade is unset.
CountUngradedNumeric(labID) ==
  Cardinality({i \in 1..Len(labGrades) :
                 labGrades[i].lab = labID /\ labGrades[i].grade = <<>>})

\* labRepo.CountUngradedByLabID of the revision the build holds.
CountUngradedByLabID(labID) ==
  IF revision = "letter" THEN CountUngradedLetter(labID)
  ELSE CountUngradedNumeric(labID)

\* labUsecase.GetUngradedCountByLabID (numeric revision)
GetUngradedCountByLabID(labID, faults) ==
  /\ revision = "numeric"
  /\ reply' = Result("GetUngradedCountByLabID",
                     IF "CountUngradedByLabID" \in faults THEN "store error" ELSE "nil",
                     <<CountUngradedByLabID(labID)>>)
  /\ UNCHANGED <<stores, calls, labGrades, now, revision>>

\* labRepo.GetAll: the labs table.
GetAll == <<"l1">>

\* labUsecase.GetLabsWithUngradedCount: one row per lab; the error of the count is
\* discarded and the count is then 0.
GetLabsWithUngradedCount(faults) ==
  LET labs == GetAll
      WithCount(j) ==
        [lab |-> labs[j],
         ungradedCount |-> IF "CountUngradedByLabID" \in faults THEN 0
                           ELSE CountUngradedByLabID(labs[j])]
  IN  /\ reply' = Result("GetLabsWithUngradedCount",
                         IF "GetAll" \in faults THEN "store error" ELSE "nil",
                         [j \in 1..Len(labs) |-> WithCount(j)])
      /\ UNCHANGED <<stores, calls, labGrades, now, revision>>

(***************************************************************************)
(* Specifications.                                                         *)
(***************************************************************************)
Step(k) ==
  \/ WriteProgress(k)
  \/ GetEnrollment(k)
  \/ GetModules(k)
  \/ CountCompleted(k)
  \/ CreateCertificate(k)
  \/ SaveEnrollment(k)
  \/ Respond(k)

\* One operation at a time: a request is answered before the next operation starts.
Next ==
  \/ NoneInFlight /\ \E c \in Courses : AddModule(c)
  \/ NoneInFlight /\ \E m \in ModuleIDs : DeleteModule(m)
  \/ NoneInFlight /\ \E u \in Students, c \in Courses : EnrollStudent(u, c)
  \/ NoneInFlight /\ \E k \in Calls, u \in Students, m \in 1..nextModuleID, c \in Courses :
        MarkModuleComplete(k, u, m, c)
  \/ \E k \in Calls : Step(k)

Spec == Init /\ [][Next]_vars

\* The approval workflow over certificates an instructor generates.
CertNext ==
  \/ \E u \in Students \cup {"ghost"}, c \in Courses, l \in Labs \cup {"none"} :
        GenerateCertificate(u, c, l, "Certificate of Achievement")
  \/ \E i \in 1..MaxCertificates, a \in UserIDs : ApproveCertificate(i, a)
  \/ \E i \in 1..MaxCertificates, a \in UserIDs : RejectCertificate(i, a)

CertSpec == Init /\ [][CertNext]_vars

\* The dashboard's list of pending certificates, read between reviews.
PendingNext ==
  \/ \E c \in Courses \cup {"none"}, l \in Labs \cup {"none"} :
        GenerateCertificate("s1", c, l, "Certificate of Achievement")
  \/ \E i \in 1..MaxCertificates, a \in {"i1", "s1"} : ApproveCertificate(i, a)
  \/ \E i \in 1..MaxCertificates, a \in {"a1"} : RejectCertificate(i, a)
  \/ \E faults \in {{}, {"GetPending"}} : GetPendingCertificates(faults)

PendingSpec == Init /\ [][PendingNext]_vars

\* The lab workflow of either revision, with no lab entry stored yet.
LabInit ==
  /\ modules = {}
  /\ nextModuleID = 0
  /\ moduleProgress = <<>>
  /\ enrollments = <<>>
  /\ certificates = <<>>
  /\ calls = [k \in Calls |-> IdleCall]
  /\ labGrades = <<>>
  /\ now = 1
  /\ reply = NoReply
  /\ revision \in {"letter", "numeric"}
  /\ courses = Courses

LabNext ==
  \/ \E u \in Students, l \in LabIDs, faults \in FaultSets :
        StudentEnroll(u, l, faults)
  \/ \E u \in UserIDs, l \in LabIDs, faults \in FaultSets :
        AddStudentToLab(u, l, faults)
  \/ \E i \in UserIDs, u \in Students, l \in Labs, g \in Grades, faults \in FaultSets :
        SubmitGrade(i, u, l, g, "good", faults)
  \/ \E u \in Students, l \in LabIDs, faults \in FaultSets :
        RemoveStudentFromLab(u, l, faults)
  \/ \E l \in LabIDs, faults \in {{}, {"GetGradesByLabID"}, {"GetByIDs"}} :
        GetUngradedStudents(l, faults)
  \/ \E l \in LabIDs, faults \in {{}, {"CountUngradedByLabID"}} :
        GetUngradedCountByLabID(l, faults)
  \/ \E faults \in {{}, {"GetAll"}, {"CountUngradedByLabID"}} :
        GetLabsWithUngradedCount(faults)

LabSpec == LabInit /\ [][LabNext]_vars

\* A course with its modules in place and no completion recorded yet; the student
\* is enrolled or not.
RaceInit ==
  /\ \E n \in 1..MaxModules :
        /\ modules = {[id |-> i, course |-> "c1"] : i \in 1..n}
        /\ nextModuleID = n
  /\ moduleProgress = <<>>
  /\ enrollments \in {<<>>, <<[user |-> "s1", course |-> "c1",
                              progress |-> Zero, finished |-> FALSE]>>}
  /\ certificates = <<>>
  /\ calls = [k \in Calls |-> IdleCall]
  /\ labGrades = <<>>
  /\ now = 1
  /\ reply = NoReply
  /\ revision = "letter"
  /\ courses = Courses

\* The workers' MarkModuleComplete requests interleave at every store call.
RaceNext ==
  \/ \E k \in Calls, u \in Students, m \in 1..nextModuleID, c \in Courses :
        MarkModuleComplete(k, u, m, c)
  \/ \E k \in Calls : Step(k)

RaceSpec == RaceInit /\ [][RaceNext]_vars

\* A course of two modules, nobody enrolled.
CourseInit ==
  /\ courses = Courses
  /\ modules = {[id |-> 1, course |-> "c1"], [id |-> 2, course |-> "c1"]}
  /\ nextModuleID = Cardinality(modules)
  /\ moduleProgress = <<>>
  /\ enrollments = <<>>
  /\ certificates = <<>>
  /\ calls = [k \in Calls |-> IdleCall]
  /\ labGrades = <<>>
  /\ now = 1
  /\ reply = NoReply
  /\ revision = "letter"

\* EnrollStudent and DeleteCourse requests of the workers, interleaved at every
\* store call.
CourseNext ==
  \/ \E k \in Calls, u \in Students, c \in Courses,
          faults \in {{}, {"GetByUserAndCourse"}} : EnrollLookup(k, u, c, faults)
  \/ \E k \in Calls, faults \in {{}, {"GetByID"}} : VerifyCourse(k, faults)
  \/ \E k \in Calls, faults \in {{}, {"Create"}} : CreateEnrollment(k, faults)
  \/ \E k \in Calls, c \in Courses, faults \in {{}, {"GetByCourseID"}} :
        DeleteCourseLookup(k, c, faults)
  \/ \E k \in Calls, faults \in {{}, {"GetByCourseID"}} : DeleteModules(k, faults)
  \/ \E k \in Calls, faults \in {{}, {"Delete"}} : DeleteCourseRow(k, faults)
  \/ \E k \in Calls : Respond(k)

CourseSpec == CourseInit /\ [][CourseNext]_vars

\* A store call of the request fails.
FailedStep(k) ==
  \/ WriteZeroProgress(k)
  \/ WriteProgressFails(k)
  \/ GetEnrollmentFails(k)
  \/ GetModulesFails(k)
  \/ CountCompletedFails(k)
  \/ SaveEnrollmentFails(k)

\* No request is between two store calls.
NoneRunning == \A k \in Calls : calls[k].pc \in {"idle", "done"}

\* A course of two modules with the student enrolled.
FaultInit ==
  /\ modules = {[id |-> 1, course |-> "c1"], [id |-> 2, course |-> "c1"]}
  /\ nextModuleID = Cardinality(modules)
  /\ moduleProgress = <<>>
  /\ enrollments = <<[user |-> "s1", course |-> "c1",
                      progress |-> Zero, finished |-> FALSE]>>
  /\ certificates = <<>>
  /\ calls = [k \in Calls |-> IdleCall]
  /\ labGrades = <<>>
  /\ now = 1
  /\ reply = NoReply
  /\ revision = "letter"
  /\ courses = Courses

\* MarkModuleComplete requests, one at a time, over a store whose calls can fail.
FaultNext ==
  \/ \E k \in Calls, u \in Students, m \in 1..nextModuleID, c \in Courses :
        NoneRunning /\ MarkModuleComplete(k, u, m, c)
  \/ \E k \in Calls, u \in Students, m \in 1..nextModuleID, c \in Courses :
        NoneRunning /\ MarkModuleCompleteLookupFails(k, u, m, c)
  \/ \E k \in Calls : Step(k)
  \/ \E k \in Calls : FailedStep(k)

FaultSpec == FaultInit /\ [][FaultNext]_vars

\* A course of two modules, nobody enrolled, the build with the letter revision.
EngineInit ==
  /\ modules = {[id |-> 1, course |-> "c1"], [id |-> 2, course |-> "c1"]}
  /\ nextModuleID = Cardinality(modules)
  /\ moduleProgress = <<>>
  /\ enrollments = <<>>
  /\ certificates = <<>>
  /\ calls = [k \in Calls |-> IdleCall]
  /\ labGrades = <<>>
  /\ now = 1
  /\ reply = NoReply
  /\ revision = "letter"
  /\ courses = Courses

\* The whole engine, one operation at a time.
EngineNext ==
  \/ NoneInFlight /\ \E u \in Students, c \in Courses : EnrollStudent(u, c)
  \/ \E k \in Calls, u \in Students, m \in 1..nextModuleID, c \in Courses :
        NoneInFlight /\ MarkModuleComplete(k, u, m, c)
  \/ \E k \in Calls : Step(k)
  \/ NoneInFlight /\ \E u \in Students, l \in Labs, faults \in {{}} :
        StudentEnroll(u, l, faults)
  \/ NoneInFlight /\ \E i \in {"i1", "s1"}, u \in Students, l \in Labs, g \in {"B", "C"},
                        faults \in {{}, {"Create"}} :
        SubmitGrade(i, u, l, g, "good", faults)
  \/ NoneInFlight /\ \E i \in 1..MaxCertificates, a \in {"a1", "s1"} :
        ApproveCertificate(i, a)
  \/ NoneInFlight /\ \E i \in 1..MaxCertificates, a \in {"a1", "s1"} :
        RejectCertificate(i, a)

EngineSpec == EngineInit /\ [][EngineNext]_vars

(***************************************************************************)
(* Properties.                                                             *)
(***************************************************************************)
Enrolled(userID, courseID) == GetByUserAndCourse(userID, courseID) # 0

StoredEnrollment(userID, courseID) == enrollments[GetByUserAndCourse(userID, courseID)]

TotalModules(courseID) == Cardinality(GetByCourseID(courseID))

\* The stored progress is 100 * (complete rows of the student and course) / N.
CompleteRows(userID, courseID) ==
  {i \in 1..Len(moduleProgress) :
     /\ moduleProgress[i].user = userID
     /\ moduleProgress[i].course = courseID
     /\ moduleProgress[i].complete}

ProgressIsCurrent(userID, courseID) ==
  StoredEnrollment(userID, courseID).progress =
    Ratio(100 * Cardinality(CompleteRows(userID, courseID)), TotalModules(courseID))

ReturnedOk(k) == calls[k].pc = "done" /\ calls[k].ret = "ok"

AllModulesComplete(userID, courseID) ==
  \A m \in GetByCourseID(courseID) :
     /\ GetByUserAndModule(userID, m.id) # 0
     /\ moduleProgress[GetByUserAndModule(userID, m.id)].complete

\* C2: once the requests for all N modules of an enrolled student's course have
\* returned, under any interleaving of their store calls, the stored enrollment has
\* progress = 100 and finished = true.
C2_AllCompleteGivesFinished ==
  \A u \in Students, c \in Courses :
    ( /\ NoneInFlight
      /\ Enrolled(u, c)
      /\ TotalModules(c) >= 1
      /\ AllModulesComplete(u, c) )
    => /\ StoredEnrollment(u, c).progress = Ratio(100, 1)
       /\ StoredEnrollment(u, c).finished

AutoCertificates(userID, courseID) ==
  {i \in 1..Len(certificates) :
     /\ certificates[i].user = userID
     /\ certificates[i].course = courseID
     /\ certificates[i].title = "Course Completion Certificate"}

\* C3: in every reachable state there is at most one auto-generated course
\* certificate per (student, course).
C3_AtMostOneCourseCertificate ==
  \A u \in Students, c \in Courses : Cardinality(AutoCertificates(u, c)) <= 1

\* C4: a request creates a course certificate only if it changes the stored finished
\* flag from false to true; a recompute on an already finished enrollment creates none.
C4_CertificateOnlyOnTransition ==
  [][\A k \in Calls :
       (calls[k].pc = "createCert" /\ Len(certificates') > Len(certificates))
       => ~enrollments[calls[k].enrollment.id].finished]_vars

\* C5, as stated: every stored enrollment has finished = true iff progress >= 100.
C5_FinishedIffComplete ==
  \A i \in 1..Len(enrollments) :
    enrollments[i].finished <=> AtLeast100(enrollments[i].progress)

\* C5, amended: every stored enrollment with progress >= 100 has finished = true
\* (finished is never cleared, so it can outlive a progress of 100).
C5_CompleteImpliesFinished ==
  \A i \in 1..Len(enrollments) :
    AtLeast100(enrollments[i].progress) => enrollments[i].finished

\* A request has just stored a progress of 100.
C5_Witness ==
  \E k \in Calls :
    /\ ReturnedOk(k)
    /\ calls[k].line = 359
    /\ StoredEnrollment(calls[k].user, calls[k].course).progress = Ratio(100, 1)
    /\ StoredEnrollment(calls[k].user, calls[k].course).finished

\* C6: every stored enrollment.progress lies in 0..100.
C6_ProgressInRange ==
  \A i \in 1..Len(enrollments) : InRange(enrollments[i].progress)

\* C7: a second MarkModuleComplete for the same (student, module, course) changes
\* nothing and returns success.  Every request that has finished leaves a complete
\* row for its (student, module); a request that finds such a row changes no store at
\* any of its steps and returns nil.
C7_RepeatedCallIsNoOp ==
  /\ [](\A k \in Calls :
          calls[k].pc = "done" =>
            /\ GetByUserAndModule(calls[k].user, calls[k].module) # 0
            /\ moduleProgress[GetByUserAndModule(calls[k].user, calls[k].module)].complete)
  /\ [](\A k \in Calls :
          (calls[k].pc = "done" /\ calls[k].existing # 0) => calls[k].ret = "ok")
  /\ [][\A k \in Calls :
          (calls'[k] # calls[k] /\ (calls[k].existing # 0 \/ calls'[k].existing # 0))
          => (/\ UNCHANGED stores
              /\ calls'[k].pc \in {"done", "idle"})]_vars

\* A request for an already recorded completion has returned while the student is
\* enrolled, the course has modules and a certificate exists.
C7_Witness ==
  \E k \in Calls :
    /\ ReturnedOk(k)
    /\ calls[k].existing # 0
    /\ Enrolled(calls[k].user, calls[k].course)
    /\ TotalModules(calls[k].course) >= 1
    /\ certificates # <<>>

\* The course of the request that worker k runs in this step.
StepCourse(k) == IF calls[k].pc = "idle" THEN calls'[k].course ELSE calls[k].course

\* C8: while the course has zero modules, no step of a MarkModuleComplete request
\* changes an enrollment or creates a certificate, and the request returns success.
C8_ZeroModulesLeavesEnrollment ==
  [][\A k \in Calls :
       (calls'[k] # calls[k] /\ GetByCourseID(StepCourse(k)) = {})
       => /\ enrollments' = enrollments
          /\ certificates' = certificates
          /\ calls'[k].ret # "panic"
          /\ (calls'[k].pc = "done" => calls'[k].ret = "ok")]_vars

\* An enrolled student's request has returned at the zero-module return.
C8_Witness ==
  \E k \in Calls :
    /\ ReturnedOk(k)
    /\ calls[k].line = 337
    /\ Enrolled(calls[k].user, calls[k].course)
    /\ GetByUserAndModule(calls[k].user, calls[k].module) # 0

\* C9: without an enrollment the request records the completion, writes no
\* enrollment, creates no certificate and completes without failing, whatever the
\* number of modules.
C9_UnenrolledCallSucceeds ==
  \A k \in Calls :
    (calls[k].pc = "done" /\ ~Enrolled(calls[k].user, calls[k].course))
    => /\ calls[k].ret = "ok"
       /\ GetByUserAndModule(calls[k].user, calls[k].module) # 0
       /\ AutoCertificates(calls[k].user, calls[k].course) = {}

\* C10: approved and rejected are terminal: a certificate that is approved stays
\* approved and one that is rejected stays rejected.
C10_StatusIsTerminal ==
  [][\A i \in 1..Len(certificates) :
       /\ certificates[i].status = "approved" => certificates'[i].status = "approved"
       /\ certificates[i].status = "rejected" => certificates'[i].status = "rejected"]_vars

\* The user id has no row, or its role is neither instructor nor admin.
NotInstructorOrAdmin(userID) ==
  \/ userID \notin {"s1", "i1", "a1"}
  \/ userID = "s1"

\* C11: ApproveCertificate and RejectCertificate called with a reviewer that does not
\* exist or whose role is neither instructor nor admin return an error and leave the
\* status, approvedBy and approvedAt of every certificate as they were.
C11_UnauthorisedReviewFails ==
  [][reply'.op \in {"ApproveCertificate", "RejectCertificate"} =>
       \A i \in 1..MaxCertificates, a \in UserIDs :
         ( /\ NotInstructorOrAdmin(a)
           /\ IF reply'.op = "ApproveCertificate"
              THEN ApproveCertificate(i, a) ELSE RejectCertificate(i, a) )
         => /\ reply'.err # "nil"
            /\ Len(certificates') = Len(certificates)
            /\ \A j \in 1..Len(certificates) :
                  /\ certificates'[j].status = certificates[j].status
                  /\ certificates'[j].approvedBy = certificates[j].approvedBy
                  /\ certificates'[j].approvedAt = certificates[j].approvedAt]_vars

\* A student's review has just been refused while a pending and a reviewed
\* certificate are stored.
C11_Witness ==
  /\ reply.op \in {"ApproveCertificate", "RejectCertificate"}
  /\ reply.err \in {"only instructors and admins can approve certificates",
                    "only instructors and admins can reject certificates"}
  /\ \E i \in 1..Len(certificates) : certificates[i].status = "pending"
  /\ \E i \in 1..Len(certificates) : certificates[i].status = "approved"

\* C12: every certificate has status pending, approved or rejected; it is created
\* pending with approvedBy and approvedAt unset; approvedBy and approvedAt are set
\* exactly when the status is approved or rejected; a successful review stamps its
\* reviewer and time, and nothing else changes a stamp.
C12_ApprovalStamp ==
  /\ [](\A i \in 1..Len(certificates) :
          /\ certificates[i].status \in {"pending", "approved", "rejected"}
          /\ (certificates[i].status = "pending") <=> (certificates[i].approvedBy = "none")
          /\ (certificates[i].status = "pending") <=> (certificates[i].approvedAt = 0))
  /\ [][\A i \in 1..Len(certificates') :
          i > Len(certificates) =>
            /\ certificates'[i].status = "pending"
            /\ certificates'[i].approvedBy = "none"
            /\ certificates'[i].approvedAt = 0]_vars
  /\ [][\A i \in 1..Len(certificates), a \in UserIDs :
          ( /\ reply'.err = "nil"
            /\ ApproveCertificate(i, a) \/ RejectCertificate(i, a) )
          => /\ certificates'[i].approvedBy = a
             /\ certificates'[i].approvedAt = now]_vars
  /\ [][\A i \in 1..Len(certificates) :
          ( \/ certificates'[i].approvedBy # certificates[i].approvedBy
            \/ certificates'[i].approvedAt # certificates[i].approvedAt )
          => /\ reply'.err = "nil"
             /\ \/ ApproveCertificate(i, certificates'[i].approvedBy)
                \/ RejectCertificate(i, certificates'[i].approvedBy)]_vars

\* A certificate approved by the instructor has then been rejected by the admin.
C12_Witness ==
  \E i \in 1..Len(certificates) :
    /\ certificates[i].status = "rejected"
    /\ certificates[i].approvedBy = "a1"
    /\ certificates[i].approvedAt = 2
    /\ reply = Reply("RejectCertificate", "nil", 0)

\* C18: every stored certificate references at most one of course and lab, whatever
\* operation stored it.
C18_CourseOrLabNotBoth ==
  \A i \in 1..Len(certificates) :
    ~(certificates[i].course # "none" /\ certificates[i].lab # "none")

\* The pending certificate of the lab trigger for (student, lab).
PendingLabCertificate(userID, labID) ==
  [user |-> userID, course |-> "none", lab |-> labID,
   title |-> "Lab Completion Certificate", status |-> "pending",
   approvedBy |-> "none", approvedAt |-> 0]

\* C13: a SubmitGrade that returns nil calls certRepo.Create exactly once when the
\* grade passes the threshold of its revision (numeric: grade >= 75; letter: A or B)
\* and not at all otherwise; the call stores one pending lab certificate for
\* (student, lab), and without the call no certificate is stored.
C13_CertificateIffPassing ==
  [][\A i \in UserIDs, u \in Students, l \in Labs, g \in Grades, faults \in FaultSets :
       (reply'.err = "nil" /\ SubmitGrade(i, u, l, g, "good", faults))
       => LET passes == IF revision = "letter" THEN g \in {"A", "B"}
                        ELSE g # <<>> /\ g[1] >= 75
          IN  /\ reply'.creates = (IF passes THEN 1 ELSE 0)
              /\ certificates' =
                    IF passes /\ "Create" \notin faults
                    THEN Append(certificates, PendingLabCertificate(u, l))
                    ELSE certificates]_vars

\* The scenario of the specification: a grade of 80 is stored and one pending lab
\* certificate exists for the student and lab.
C13_Witness ==
  /\ revision = "numeric"
  /\ reply = Reply("SubmitGrade", "nil", 1)
  /\ GetGrade("s1", "l1") # 0
  /\ labGrades[GetGrade("s1", "l1")].grade = <<80>>
  /\ certificates = <<PendingLabCertificate("s1", "l1")>>

\* C14: SubmitGrade with an instructorID that has no user row or whose role is
\* neither instructor nor admin returns an error and leaves every lab grade entry
\* and every certificate as it was.
C14_UnauthorisedGradingFails ==
  [][\A i \in UserIDs, u \in Students, l \in Labs, g \in Grades, faults \in FaultSets :
       (NotInstructorOrAdmin(i) /\ SubmitGrade(i, u, l, g, "good", faults))
       => /\ reply'.err # "nil"
          /\ reply'.creates = 0
          /\ labGrades' = labGrades
          /\ certificates' = certificates]_vars

\* A student's passing grade for an enrolled, ungraded student has been refused.
C14_Witness ==
  /\ reply = Reply("SubmitGrade", "only instructors and admins can grade labs", 0)
  /\ GetGrade("s1", "l1") # 0
  /\ labGrades[GetGrade("s1", "l1")].grade = NotGraded
  /\ certificates = <<>>

\* The lab grade entries of (student, lab).
Entries(userID, labID) ==
  {i \in 1..Len(labGrades) : labGrades[i].user = userID /\ labGrades[i].lab = labID}

\* C15: StudentEnroll for a student who has an entry for the lab, graded or not,
\* returns an error, "already enrolled in this lab" when the lookup itself works,
\* and changes no entry; no (student, lab) ever has more than one entry.
C15_SecondEnrollConflicts ==
  /\ [](\A u \in Students, l \in LabIDs : Cardinality(Entries(u, l)) <= 1)
  /\ [][\A u \in Students, l \in LabIDs, faults \in FaultSets :
          (Entries(u, l) # {} /\ StudentEnroll(u, l, faults))
          => /\ reply'.err # "nil"
             /\ "GetGrade" \notin faults => reply'.err = "already enrolled in this lab"
             /\ labGrades' = labGrades]_vars

\* The second enrollment has been refused for an entry that is already graded.
C15_Witness ==
  /\ reply = Reply("StudentEnroll", "already enrolled in this lab", 0)
  /\ Cardinality(Entries("s1", "l1")) = 1
  /\ labGrades[GetGrade("s1", "l1")].grade # NotGraded

LabEnrolled(userID, labID) == GetGrade(userID, labID) # 0

LabGraded(userID, labID) ==
  /\ LabEnrolled(userID, labID)
  /\ labGrades[GetGrade(userID, labID)].grade # NotGraded

\* C16: per (student, lab) the entry only moves forward: whatever lab operation
\* runs, an entry that is graded stays stored and graded, and SubmitGrade removes
\* no entry.
C16_RecordOnlyMovesForward ==
  [][\A u \in Students, l \in LabIDs :
       /\ LabGraded(u, l) => LabGraded(u, l)'
       /\ (reply'.op = "SubmitGrade" /\ LabEnrolled(u, l)) => LabEnrolled(u, l)']_vars

\* C17: when certRepo.Create fails, MarkModuleComplete still returns nil with the
\* progress and finished it computed stored in the enrollment, and SubmitGrade still
\* returns nil with the grade and feedback stored in the entry.
C17_CreateFailureIsSwallowed ==
  /\ [](\A k \in Calls :
          (calls[k].pc = "done" /\ calls[k].certErr = "store error")
          => /\ calls[k].ret = "ok"
             /\ AtLeast100(enrollments[calls[k].enrollment.id].progress)
             /\ enrollments[calls[k].enrollment.id].progress = calls[k].enrollment.progress
             /\ enrollments[calls[k].enrollment.id].finished)
  /\ [][\A i \in UserIDs, u \in Students, l \in Labs, g \in Grades :
          (reply'.creates = 1 /\ SubmitGrade(i, u, l, g, "good", {"Create"}))
          => /\ reply'.err = "nil"
             /\ certificates' = certificates
             /\ labGrades'[GetGrade(u, l)].grade = g
             /\ labGrades'[GetGrade(u, l)].feedback = "good"]_vars

\* Both triggers have fired and failed: the enrollment is finished at 100, the entry
\* holds the passing grade, and no certificate is stored.
C17_Witness ==
  /\ certificates = <<>>
  /\ reply = Reply("SubmitGrade", "nil", 1)
  /\ GetGrade("s1", "l1") # 0
  /\ labGrades[GetGrade("s1", "l1")] =
        [user |-> "s1", lab |-> "l1", grade |-> "B", feedback |-> "good"]
  /\ Enrolled("s1", "c1")
  /\ StoredEnrollment("s1", "c1").progress = Ratio(100, 1)
  /\ StoredEnrollment("s1", "c1").finished

\* C19: a MarkModuleComplete call made after the concurrent calls have returned
\* stores the correct progress and finished, also when every module of the course is
\* already complete: once such a call has returned for an enrolled student whose
\* modules are all complete, the enrollment has progress 100 and finished = true.
C19_SubsequentCallRepairs ==
  [][\A k \in Calls :
       ( /\ NoneInFlight
         /\ calls'[k].pc = "done"
         /\ Enrolled(calls'[k].user, calls'[k].course)
         /\ TotalModules(calls'[k].course) >= 1
         /\ AllModulesComplete(calls'[k].user, calls'[k].course) )
       => /\ calls'[k].ret = "ok"
          /\ enrollments' = [enrollments EXCEPT
                ![GetByUserAndCourse(calls'[k].user, calls'[k].course)] =
                   [@ EXCEPT !.progress = Ratio(100, 1), !.finished = TRUE]]]_vars

\* A step of a MarkModuleComplete request.
RequestStep == calls' # calls

CompletionRows(userID, moduleID) ==
  {i \in 1..Len(moduleProgress) :
     moduleProgress[i].user = userID /\ moduleProgress[i].module = moduleID}

\* C21: in every reachable state there is at most one ModuleCompletion row per
\* (student, module), also when two MarkModuleComplete requests for the same
\* (student, module) interleave their lookup and their insert, so the completed
\* count never counts a module twice.
C21_OneRowPerStudentModule ==
  \A u \in Students, m \in ModuleIDs :
    /\ Cardinality(CompletionRows(u, m)) <= 1
    /\ \A c \in Courses :
         CountCompletedByUserAndCourse(u, c) <= Cardinality({n \in ModuleIDs :
                                                   CompletionRows(u, n) # {}})

\* C26: SubmitGrade by an instructor or admin for a (student, lab) that has no lab
\* grade entry fails with "student not enrolled in this lab" and stores neither an
\* entry nor a certificate.
C26_NotEnrolledIsAnError ==
  [][\A i \in {"i1", "a1"}, u \in Students, l \in Labs, g \in Grades, faults \in FaultSets :
       ( /\ reply'.op = "SubmitGrade"
         /\ ~LabEnrolled(u, l)
         /\ "GetGrade" \notin faults
         /\ SubmitGrade(i, u, l, g, "good", faults) )
       => /\ reply'.err = "student not enrolled in this lab"
          /\ labGrades' = labGrades
          /\ certificates' = certificates]_vars

\* C27: ApproveCertificate by an instructor or admin on a certificate that is
\* already approved returns nil, leaves the status approved and stamps approvedBy
\* with the new reviewer and approvedAt with the time of the call, which is later
\* than the stamp it replaces; the stored certificate changes when the reviewer does.
C27_ReapproveRestamps ==
  [][\A i \in 1..Len(certificates), a \in {"i1", "a1"} :
       ( /\ reply'.op = "ApproveCertificate"
         /\ certificates[i].status = "approved"
         /\ ApproveCertificate(i, a) )
       => /\ reply'.err = "nil"
          /\ certificates'[i] = [certificates[i] EXCEPT !.approvedBy = a,
                                                        !.approvedAt = now]
          /\ now > certificates[i].approvedAt
          /\ a # certificates[i].approvedBy => certificates'[i] # certificates[i]]_vars

\* The only certificate has been approved a second time, now by the admin.
C27_Witness ==
  /\ reply = Reply("ApproveCertificate", "nil", 0)
  /\ Len(certificates) = 1
  /\ certificates[1].status = "approved"
  /\ certificates[1].approvedBy = "a1"
  /\ certificates[1].approvedAt = 2

\* The request of worker k stores a progress of at least 100 in this step, or
\* creates the course certificate.
StoresCompletion(k) ==
  \/ /\ calls[k].pc = "save"
     /\ calls'[k].pc = "done"
     /\ AtLeast100(calls[k].enrollment.progress)
  \/ /\ calls[k].pc = "createCert"
     /\ Len(certificates') > Len(certificates)

\* C28: a request stores progress 100 with finished = true, or issues the course
\* certificate, only while the student has a complete row for every module that
\* belongs to the course; completions of identifiers that are not modules of the
\* course do not count.
C28_CompleteOnlyWithAllModules ==
  [][\A k \in Calls :
       StoresCompletion(k) => AllModulesComplete(calls[k].user, calls[k].course)]_vars

\* The elements of a sequence.
Range(seq) == {seq[j] : j \in 1..Len(seq)}

\* C24: GetPendingCertificates returns exactly the certificates whose status is
\* pending, each once, whoever they belong to and whether they are for a course or
\* a lab, so a certificate that has been approved or rejected is not in the next
\* result; the call changes no stored state.
C24_PendingListIsExact ==
  /\ []((reply.op = "GetPendingCertificates" /\ reply.err = "nil")
         => /\ Range(reply.result) =
                 {i \in 1..Len(certificates) : certificates[i].status = "pending"}
            /\ \A j, k \in 1..Len(reply.result) :
                 reply.result[j] = reply.result[k] => j = k)
  /\ [][reply'.op = "GetPendingCertificates"
          => UNCHANGED <<stores, calls, labGrades, now, revision>>]_vars

\* The list holds a pending course certificate and a pending lab certificate and
\* leaves out the certificate rejected before the call.
C24_Witness ==
  /\ reply.op = "GetPendingCertificates"
  /\ reply.result = <<3, 1>>
  /\ certificates[1].lab = "none"
  /\ certificates[3].course = "none"
  /\ certificates[2].status = "rejected"

\* The students that have an entry for the lab with the grade unset.
UngradedStudents(labID) ==
  {u \in UserIDs : \E i \in 1..Len(labGrades) :
     /\ labGrades[i].user = u
     /\ labGrades[i].lab = labID
     /\ labGrades[i].grade = NotGraded}

C25_ModuleLookupFailureIsSwallowed ==
  /\ [][\A k \in Calls :
          (calls[k].pc = "getModules" /\ calls'[k].pc = "done")
          => /\ calls'[k].ret = "ok"
             /\ calls'[k].line = 337
             /\ UNCHANGED stores]_vars
  /\ [][\A k \in Calls :
          (calls'[k] # calls[k] /\ calls'[k].pc \in {"write", "writeZero",
                                                      "getEnrollment", "getModules"})
          => /\ enrollments' = enrollments
             /\ certificates' = certificates]_vars
  /\ [](\A k \in Calls :
          (calls[k].pc = "done" /\ calls[k].line = 337 /\ calls[k].existing # -1)
          => /\ GetByUserAndModule(calls[k].user, calls[k].module) # 0
             /\ moduleProgress[GetByUserAndModule(calls[k].user, calls[k].module)].complete)

\* The second module's completion is recorded, its request returned nil at the
\* zero-module return, and the enrollment still holds the progress of the first.
C25_Witness ==
  \E k \in Calls :
    /\ ReturnedOk(k)
    /\ calls[k].line = 337
    /\ calls[k].existing = 0
    /\ TotalModules(calls[k].course) = 2
    /\ Cardinality(CompleteRows(calls[k].user, calls[k].course)) = 2
    /\ StoredEnrollment(calls[k].user, calls[k].course).progress = Ratio(50, 1)
    /\ ~StoredEnrollment(calls[k].user, calls[k].course).finished
    /\ certificates = <<>>

\* The request of worker j wrote its completion and then returned the error of the
\* enrollment read or of the enrollment update.
FailedAfterWrite(j) ==
  /\ calls[j].pc = "done"
  /\ calls[j].ret = "error"
  /\ calls[j].line \in {329, 359}
  /\ calls[j].existing # -1

\* C29: after a MarkModuleComplete request failed at the enrollment read or update,
\* with its completion written, the same request repeated over a working store
\* leaves the enrollment's progress equal to 100 * complete rows / N, with finished
\* set when that is 100.
C29_RetryAggregates ==
  \A j, k \in Calls :
    ( /\ FailedAfterWrite(j)
      /\ ReturnedOk(k)
      /\ calls[k].existing # -1
      /\ calls[k].user = calls[j].user
      /\ calls[k].module = calls[j].module
      /\ calls[k].course = calls[j].course
      /\ ZeroRows = {} )
    => /\ ProgressIsCurrent(calls[k].user, calls[k].course)
       /\ AtLeast100(StoredEnrollment(calls[k].user, calls[k].course).progress)
            => StoredEnrollment(calls[k].user, calls[k].course).finished

\* C22: there is at most one enrollment per (student, course) in every reachable
\* state, also when EnrollStudent requests for the same pair interleave; an
\* EnrollStudent for a pair that has an enrollment, or whose existence lookup
\* fails, returns an error and no step of it creates an enrollment.
C22_OneEnrollmentPerPair ==
  /\ [](\A u \in Students, c \in Courses : Cardinality(EnrollmentRows(u, c)) <= 1)
  /\ [][\A k \in Calls, u \in Students, c \in Courses,
          faults \in SUBSET {"GetByUserAndCourse"} :
          ( /\ EnrollmentRows(u, c) # {} \/ faults # {}
            /\ EnrollLookup(k, u, c, faults) )
          => /\ calls'[k].pc = "done"
             /\ calls'[k].ret = "already enrolled in this course"]_vars

\* C30: while at least one enrollment of a course exists, no step deletes the
\* course or one of its modules, and a DeleteCourse request that starts then
\* returns an error, also when its enrollment lookup fails; no enrollment refers to
\* a course that has no row.
C30_EnrolledCourseIsKept ==
  /\ [][\A c \in Courses :
          EnrollmentsOfCourse(c) # {}
          => /\ c \in courses => c \in courses'
             /\ {m \in modules' : m.course = c} = {m \in modules : m.course = c}]_vars
  /\ [][\A k \in Calls, c \in Courses, faults \in SUBSET {"GetByCourseID"} :
          (EnrollmentsOfCourse(c) # {} /\ DeleteCourseLookup(k, c, faults))
          => /\ calls'[k].pc = "done"
             /\ calls'[k].ret = "cannot delete course with existing enrollments"]_vars
  /\ [](\A i \in 1..Len(enrollments) : enrollments[i].course \in courses)

====
